---- MODULE Spec2Model ----
(***************************************************************************)
(* A model of tonic-side-effect's src/lib.rs: RequestFrameMonitor, the     *)
(* tower Service that wraps a tonic Channel, RequestFrameMonitorBody, the  *)
(* body it hands to the channel in place of the request's body, and        *)
(* RequestFrameMonitorFuture, the future it returns.                       *)
(*                                                                         *)
(* Tasks.  The caller's task drives poll_ready, call, the returned future  *)
(* and, after an Ok, the response body.  The channel's connection task     *)
(* polls the monitored body it was given.  The two run concurrently, so    *)
(* their steps interleave.  The only memory they share is the              *)
(* Arc<AtomicBool> of a call; a step of the model holds at most one access *)
(* to it, together with the task-local code around it:                     *)
(*   PollFrame(c, res)  lines 29-32, 35-38: the inner poll, the match and, *)
(*                      for a frame, the store; the arms that store        *)
(*                      nothing return within the step;                    *)
(*   YieldFrame(c)      line 33: poll_frame returns the frame to the       *)
(*                      consumer;                                          *)
(*   PollFuture(c, out) lines 67-86: the inner poll, the load, the         *)
(*                      insert, the return.                                *)
(***************************************************************************)
EXTENDS Integers, Sequences, FiniteSets

\* Bounds of the model.
MaxCalls == 2
MaxBodyOps == 3

Calls == 1..MaxCalls

VARIABLES
    slot,                 \* RequestFrameMonitor.inner: the resident handle
    handles,              \* how many Channel handles exist (ids 1..handles)
    ready,                \* handles whose poll_ready said Ready(Ok), not called since
    lastReady,            \* the last poll_ready: what inner said, what was returned,
                          \* whether the returned Status carries no_frames_tag
    nCalls,               \* how many times call() ran
    callHandle,           \* call -> the handle inner.call ran on (0: none)
    http_frame_produced,  \* the heap of AtomicBools: id -> value
    futSig,               \* call -> the id held by RequestFrameMonitorFuture
    bodySig,              \* call -> the id held by RequestFrameMonitorBody
    fut,                  \* call -> state of the future and what it returned
    futInner,             \* call -> what the inner future answered to the last poll
    body,                 \* call -> state of the monitored body
    innerTrace,           \* call -> what the inner body's poll_frame returned
    outTrace,             \* call -> what RequestFrameMonitorBody::poll_frame returned
    respFrames            \* call -> frames the caller took from the response body

vars == <<slot, handles, ready, lastReady, nCalls, callHandle,
          http_frame_produced, futSig, bodySig, fut, futInner, body,
          innerTrace, outTrace, respFrames>>

svcVars == <<slot, handles, ready, lastReady, nCalls, callHandle>>

----------------------------------------------------------------------------
\* Poll<Option<Result<Frame, Status>>>, as records.
Pending == [kind |-> "pending", data |-> 0]
FrameOk(n) == [kind |-> "frame", data |-> n]
FrameErr == [kind |-> "error", data |-> 1]
EndOfStream == [kind |-> "end", data |-> 0]

IsFrame(r) == r.kind = "frame"
IsTerminal(r) == r.kind \in {"error", "end"}

HasFrame(t) == \E i \in 1..Len(t) : IsFrame(t[i])
FrameCount(t) == Cardinality({i \in 1..Len(t) : IsFrame(t[i])})
Terminated(t) == \E i \in 1..Len(t) : IsTerminal(t[i])

\* AtomicBool::load(Acquire) on the signal with id s.
Signalled(s) == http_frame_produced[s]

----------------------------------------------------------------------------
\* Variants of the definitions below, each changed the way a slip in the
\* code would change it; the properties are checked to tell them apart.
PollFrameSignalsOnReady(res) == res.kind # "pending"
PollFrameSignalsOnSome(res) == res.kind \in {"frame", "error"}

\* RequestFrameMonitorBody::poll_frame, the match on the inner result:
\* whether this arm runs http_frame_produced.store(true, Release).
PollFrameSignals(res) == res.kind = "frame"

PollFrameResultHidesEnd(res) ==
    CASE res.kind = "frame"   -> [kind |-> "frame", data |-> res.data]
      [] res.kind = "error"   -> [kind |-> "error", data |-> res.data]
      [] res.kind = "end"     -> [kind |-> "pending", data |-> 0]
      [] res.kind = "pending" -> [kind |-> "pending", data |-> 0]

PollFrameResultSwallowsError(res) ==
    CASE res.kind = "frame"   -> [kind |-> "frame", data |-> res.data]
      [] res.kind = "error"   -> [kind |-> "end", data |-> 0]
      [] res.kind = "end"     -> [kind |-> "end", data |-> 0]
      [] res.kind = "pending" -> [kind |-> "pending", data |-> 0]

\* RequestFrameMonitorBody::poll_frame, the match on the inner result:
\* the value the arm returns.
PollFrameResult(res) ==
    CASE res.kind = "frame"   -> [kind |-> "frame", data |-> res.data]
      [] res.kind = "error"   -> [kind |-> "error", data |-> res.data]
      [] res.kind = "end"     -> [kind |-> "end", data |-> 0]
      [] res.kind = "pending" -> [kind |-> "pending", data |-> 0]

StoreResetsOnError(old, res) ==
    IF res.kind = "frame" THEN TRUE ELSE IF res.kind = "error" THEN FALSE ELSE old

\* The value of the AtomicBool after the arm for res ran.
StoreOnFrame(old, res) == IF PollFrameSignals(res) THEN TRUE ELSE old

ReturnThenStore == FALSE

\* The Ok(frame) arm: the store (line 32) comes before the frame is
\* returned (line 33).
StoreThenReturn == TRUE

InsertsTagInverted(produced) == produced
InsertsTagAlways(produced) == TRUE

\* RequestFrameMonitorFuture::poll, the Err arm: whether no_frames_tag is
\* inserted, given the value the load returned.
InsertsTag(produced) == ~produced

FutureResultDefersError(out, produced) ==
    CASE out = "ok"      -> [state |-> "ok", marker |-> FALSE]
      [] out = "err"     -> [state |-> "pending", marker |-> FALSE]
      [] out = "pending" -> [state |-> "pending", marker |-> FALSE]

FutureResultFailsEmptyOk(out, produced) ==
    CASE out = "ok"      -> IF produced THEN [state |-> "ok", marker |-> FALSE]
                            ELSE [state |-> "err", marker |-> TRUE]
      [] out = "err"     -> [state |-> "err", marker |-> ~produced]
      [] out = "pending" -> [state |-> "pending", marker |-> FALSE]

\* RequestFrameMonitorFuture::poll, the match on the inner future's result.
FutureResult(out, produced) ==
    CASE out = "ok"      -> [state |-> "ok", marker |-> FALSE]
      [] out = "err"     -> [state |-> "err", marker |-> InsertsTag(produced)]
      [] out = "pending" -> [state |-> "pending", marker |-> FALSE]

PollReadyResultHidesError(inner) ==
    CASE inner = "ok"      -> "ok"
      [] inner = "err"     -> "pending"
      [] inner = "pending" -> "pending"

\* RequestFrameMonitor::poll_ready: map_err keeps the kind of the result.
PollReadyResult(inner) ==
    CASE inner = "ok"      -> "ok"
      [] inner = "err"     -> "err"
      [] inner = "pending" -> "pending"

\* RequestFrameMonitor::poll_ready: the closure of map_err builds the Status
\* with Status::from_error and inserts nothing.
PollReadyInsertsTag(inner) == FALSE

SharedSignal(heap) == 1

\* RequestFrameMonitor::call: Arc::new(AtomicBool::new(false)) is a new cell.
NewSignal(heap) == Len(heap) + 1
BodySignalOfFirstCall(s) == 1

\* The handle given to the body is http_frame_produced.clone(): the same cell.
BodySignal(s) == s
\* self.inner.clone(): a new handle.
CloneHandle(n) == n + 1
SlotKeepsResident(resident, clone) == resident

DispatchOnClone(resident, clone) == clone

\* mem::replace(&mut self.inner, clone): the call runs on the resident
\* handle and the clone stays in the slot.
DispatchHandle(resident, clone) == resident
SlotAfterCall(resident, clone) == clone

DropClears(old) == FALSE

\* RequestFrameMonitorBody has no Drop impl: dropping it releases its Arc
\* handle and writes nothing.  The value of the AtomicBool after the drop.
DropStore(old) == old

QueryStoreSets(old) == TRUE

\* RequestFrameMonitorBody::is_end_stream and size_hint return what the inner
\* body answers and hold no store: the value of the AtomicBool after them.
QueryStore(old) == old

ResponseFrameMonitored == TRUE

\* The response of an Ok is returned as the channel built it (line 73): its
\* body is the channel's, and its frames do not reach the AtomicBool.
ResponseFrameSignals == FALSE

----------------------------------------------------------------------------
NoBody == [pc |-> "none", cur |-> Pending]
NoFuture == [state |-> "none", marker |-> FALSE]

Init ==
    /\ slot = 1
    /\ handles = 1
    /\ ready = {}
    /\ lastReady = [inner |-> "none", outer |-> "none", marker |-> FALSE]
    /\ nCalls = 0
    /\ callHandle = [c \in Calls |-> 0]
    /\ http_frame_produced = <<>>
    /\ futSig = [c \in Calls |-> 0]
    /\ bodySig = [c \in Calls |-> 0]
    /\ fut = [c \in Calls |-> NoFuture]
    /\ futInner = [c \in Calls |-> "none"]
    /\ body = [c \in Calls |-> NoBody]
    /\ innerTrace = [c \in Calls |-> <<>>]
    /\ outTrace = [c \in Calls |-> <<>>]
    /\ respFrames = [c \in Calls |-> 0]

\* poll_ready(): forwards self.inner.poll_ready.  The caller drives it while
\* it has a call left to make.
PollReady(inner) ==
    /\ nCalls < MaxCalls
    /\ lastReady' = [inner |-> inner, outer |-> PollReadyResult(inner),
                     marker |-> PollReadyInsertsTag(inner)]
    /\ ready' = IF inner = "ok" THEN ready \cup {slot} ELSE ready \ {slot}
    /\ UNCHANGED <<slot, handles, nCalls, callHandle, http_frame_produced,
                   futSig, bodySig, fut, futInner, body, innerTrace, outTrace, respFrames>>

\* call(req), made by a caller that saw poll_ready return Ready(Ok).
Call ==
    /\ nCalls < MaxCalls
    /\ slot \in ready
    /\ LET c == nCalls + 1
           s == NewSignal(http_frame_produced)
           clone == CloneHandle(handles)
           inner == DispatchHandle(slot, clone)
       IN /\ nCalls' = c
          /\ http_frame_produced' =
                 IF s > Len(http_frame_produced)
                 THEN Append(http_frame_produced, FALSE)
                 ELSE http_frame_produced
          /\ bodySig' = [bodySig EXCEPT ![c] = BodySignal(s)]
          /\ futSig' = [futSig EXCEPT ![c] = s]
          /\ body' = [body EXCEPT ![c] = [pc |-> "idle", cur |-> Pending]]
          /\ handles' = clone
          /\ slot' = SlotAfterCall(slot, clone)
          /\ callHandle' = [callHandle EXCEPT ![c] = inner]
          /\ ready' = ready \ {inner}
          /\ fut' = [fut EXCEPT ![c] = [state |-> "inflight", marker |-> FALSE]]
    /\ UNCHANGED <<lastReady, futInner, innerTrace, outTrace, respFrames>>

\* How many operations were made on bodies, over all calls: the polls and
\* the drops of monitored bodies, the frames taken from response bodies.
RECURSIVE BodyOpsUpTo(_)
BodyOpsUpTo(c) ==
    IF c = 0 THEN 0
    ELSE Len(innerTrace[c]) + (IF body[c].pc = "dropped" THEN 1 ELSE 0)
         + respFrames[c] + BodyOpsUpTo(c - 1)
TotalBodyOps == BodyOpsUpTo(MaxCalls)

\* What the inner body of call c may answer to a poll: frames carry their
\* position in the stream as payload.
InnerResults(c) ==
    {Pending, FrameOk(FrameCount(innerTrace[c]) + 1), FrameErr, EndOfStream}

\* poll_frame: the inner body is polled and the match arm runs.  The arm of
\* a frame has two effects, the store to the AtomicBool and the return of the
\* frame to the consumer: this step is the first of them, YieldFrame the
\* second.  The other arms touch nothing shared and return within the step.
\* A body is not polled again after it returned an error or None, nor after
\* it was dropped.
PollFrame(c, res) ==
    /\ body[c].pc = "idle"
    /\ ~Terminated(innerTrace[c])
    /\ TotalBodyOps < MaxBodyOps
    /\ innerTrace' = [innerTrace EXCEPT ![c] = Append(@, res)]
    /\ IF PollFrameSignals(res)
       THEN /\ body' = [body EXCEPT ![c] = [pc |-> "matched", cur |-> res]]
            /\ IF StoreThenReturn
               THEN /\ http_frame_produced' =
                          [http_frame_produced EXCEPT
                               ![bodySig[c]] = StoreOnFrame(@, res)]
                    /\ UNCHANGED outTrace
               ELSE /\ outTrace' =
                          [outTrace EXCEPT ![c] = Append(@, PollFrameResult(res))]
                    /\ UNCHANGED http_frame_produced
       ELSE /\ outTrace' = [outTrace EXCEPT ![c] = Append(@, PollFrameResult(res))]
            /\ http_frame_produced' =
                   [http_frame_produced EXCEPT ![bodySig[c]] = StoreOnFrame(@, res)]
            /\ UNCHANGED body
    /\ UNCHANGED <<svcVars, futSig, bodySig, fut, futInner, respFrames>>

\* The second effect of the Ok(frame) arm: poll_frame returns and the
\* consumer holds the frame.
YieldFrame(c) ==
    /\ body[c].pc = "matched"
    /\ IF StoreThenReturn
       THEN /\ outTrace' =
                  [outTrace EXCEPT ![c] = Append(@, PollFrameResult(body[c].cur))]
            /\ UNCHANGED http_frame_produced
       ELSE /\ http_frame_produced' =
                  [http_frame_produced EXCEPT
                       ![bodySig[c]] = StoreOnFrame(@, body[c].cur)]
            /\ UNCHANGED outTrace
    /\ body' = [body EXCEPT ![c] = [pc |-> "idle", cur |-> Pending]]
    /\ UNCHANGED <<svcVars, futSig, bodySig, fut, futInner, innerTrace, respFrames>>

\* The consumer drops the monitored body before the stream ended: the
\* struct has no Drop impl, so only its fields go.
DropBody(c) ==
    /\ body[c].pc = "idle"
    /\ ~Terminated(outTrace[c])
    /\ TotalBodyOps < MaxBodyOps
    /\ body' = [body EXCEPT ![c] = [pc |-> "dropped", cur |-> Pending]]
    /\ http_frame_produced' =
           [http_frame_produced EXCEPT ![bodySig[c]] = DropStore(@)]
    /\ UNCHANGED <<svcVars, futSig, bodySig, fut, futInner, innerTrace, outTrace,
                   respFrames>>

\* is_end_stream(): self.inner.is_end_stream(), on a body that is not in the
\* middle of a poll.
IsEndStream(c) ==
    /\ body[c].pc = "idle"
    /\ http_frame_produced' =
           [http_frame_produced EXCEPT ![bodySig[c]] = QueryStore(@)]
    /\ UNCHANGED <<svcVars, futSig, bodySig, fut, futInner, body, innerTrace,
                   outTrace, respFrames>>

\* size_hint(): self.inner.size_hint().
SizeHint(c) ==
    /\ body[c].pc = "idle"
    /\ http_frame_produced' =
           [http_frame_produced EXCEPT ![bodySig[c]] = QueryStore(@)]
    /\ UNCHANGED <<svcVars, futSig, bodySig, fut, futInner, body, innerTrace,
                   outTrace, respFrames>>

\* RequestFrameMonitorFuture::poll: the inner future answers out.
PollFuture(c, out) ==
    /\ fut[c].state \in {"inflight", "pending"}
    /\ fut' = [fut EXCEPT ![c] = FutureResult(out, Signalled(futSig[c]))]
    /\ futInner' = [futInner EXCEPT ![c] = out]
    /\ UNCHANGED <<svcVars, http_frame_produced, futSig, bodySig, body,
                   innerTrace, outTrace, respFrames>>

\* The caller takes a frame from the body of the response it was returned.
ResponseFrame(c) ==
    /\ fut[c].state = "ok"
    /\ TotalBodyOps < MaxBodyOps
    /\ respFrames' = [respFrames EXCEPT ![c] = @ + 1]
    /\ http_frame_produced' =
           [http_frame_produced EXCEPT ![futSig[c]] =
                IF ResponseFrameSignals THEN TRUE ELSE @]
    /\ UNCHANGED <<svcVars, futSig, bodySig, fut, futInner, body, innerTrace,
                   outTrace>>

Next ==
    \/ \E inner \in {"pending", "ok", "err"} : PollReady(inner)
    \/ Call
    \/ \E c \in Calls : \E res \in InnerResults(c) : PollFrame(c, res)
    \/ \E c \in Calls : YieldFrame(c)
    \/ \E c \in Calls : DropBody(c)
    \/ \E c \in Calls : IsEndStream(c)
    \/ \E c \in Calls : SizeHint(c)
    \/ \E c \in Calls : \E out \in {"pending", "ok", "err"} : PollFuture(c, out)
    \/ \E c \in Calls : ResponseFrame(c)

Spec == Init /\ [][Next]_vars

----------------------------------------------------------------------------
Issued(c) == c <= nCalls
InFlight(c) == fut[c].state \in {"inflight", "pending"}
ResolvesErr(c) == fut[c].state # "err" /\ fut'[c].state = "err"
OnlyFramesThenEnd(t) ==
    /\ Len(t) > 0
    /\ t[Len(t)].kind = "end"
    /\ \A i \in 1..(Len(t) - 1) : t[i].kind \in {"frame", "pending"}
FirstEventIsError(t) ==
    \E i \in 1..Len(t) :
        /\ t[i].kind = "error"
        /\ \A j \in 1..(i - 1) : t[j].kind = "pending"

\* C1: when the future of a call resolves with an error, the Status it
\* returns carries no_frames_tag if and only if the call's AtomicBool is
\* false at that moment.
C1_MarkerIffSignalUnset ==
    [][\A c \in Calls :
          ResolvesErr(c) => (fut'[c].marker <=> ~Signalled(futSig[c]))]_vars

C1_Witness ==
    \E c \in Calls : \E d \in Calls :
        /\ fut[c] = [state |-> "err", marker |-> TRUE]
        /\ fut[d] = [state |-> "err", marker |-> FALSE]
        /\ HasFrame(outTrace[d])

\* C2, as claimed: every call whose future resolved with an error carries
\* the marker, whatever the monitored body yielded before.
C2_MarkerOnEveryError ==
    \A c \in Calls : fut[c].state = "err" => fut[c].marker

\* C2, amended: when the future of a call resolves with an error, the error
\* carries the marker if the inner (request) body has produced no frame so
\* far, and carries no marker if the monitored body has already returned a
\* frame to its consumer.
C2_MarkerFollowsRequestFrames ==
    [][\A c \in Calls :
          ResolvesErr(c) =>
              /\ ~HasFrame(innerTrace[c]) => fut'[c].marker
              /\ HasFrame(outTrace[c]) => ~fut'[c].marker]_vars

C2_Witness ==
    \E c \in Calls :
        /\ fut[c] = [state |-> "err", marker |-> TRUE]
        /\ Len(outTrace[c]) > 0
        /\ ~HasFrame(innerTrace[c])

\* C3: the AtomicBool of a call starts false, and after a stream of frames
\* and Pendings that ended with None it is true if and only if the stream
\* held a frame.
C3_SignalIffNonEmpty ==
    \A c \in Calls :
        /\ (Issued(c) /\ innerTrace[c] = <<>>) => ~Signalled(bodySig[c])
        /\ OnlyFramesThenEnd(outTrace[c]) =>
               (Signalled(bodySig[c]) <=> HasFrame(outTrace[c]))

C3_Witness ==
    \E c \in Calls :
        /\ outTrace[c] = <<Pending, FrameOk(1), EndOfStream>>
        /\ Signalled(bodySig[c])

\* C4: no step turns a true AtomicBool false, and after frame, frame, error
\* it is true.
C4_SignalMonotonic ==
    [][/\ \A s \in 1..Len(http_frame_produced) :
             http_frame_produced[s] => http_frame_produced'[s]
       /\ \A c \in Calls :
             outTrace'[c] = <<FrameOk(1), FrameOk(2), FrameErr>> =>
                 http_frame_produced'[bodySig'[c]]]_vars

C4_Witness ==
    \E c \in Calls :
        /\ outTrace[c] = <<FrameOk(1), FrameOk(2), FrameErr>>
        /\ Signalled(bodySig[c])

\* C5: when the first event of a stream that is not Pending is an error, the
\* AtomicBool is false after the error was returned.
C5_ErrorDoesNotSignal ==
    \A c \in Calls :
        FirstEventIsError(outTrace[c]) => ~Signalled(bodySig[c])

C5_Witness ==
    \E c \in Calls :
        /\ outTrace[c] = <<Pending, FrameErr>>
        /\ ~Signalled(bodySig[c])

\* C6: what poll_frame returned is, event by event, what the inner body
\* returned; in the middle of a poll the result in hand is the one still due.
C6_LosslessProxy ==
    \A c \in Calls :
        IF body[c].pc = "matched"
        THEN innerTrace[c] = Append(outTrace[c], body[c].cur)
        ELSE outTrace[c] = innerTrace[c]

C6_Witness ==
    \E c \in Calls :
        /\ body[c].pc = "idle"
        /\ outTrace[c] = <<FrameOk(1), Pending, FrameErr>>
        /\ innerTrace[c] = outTrace[c]

\* C7: in every state, a consumer that holds a frame of a monitored body
\* finds the AtomicBool of that body true.
C7_SignalBeforeFrame ==
    \A c \in Calls : HasFrame(outTrace[c]) => Signalled(bodySig[c])

C7_Witness ==
    \E c \in Calls :
        /\ body[c].pc = "matched"
        /\ Signalled(bodySig[c])
        /\ ~HasFrame(outTrace[c])
        /\ InFlight(c)

\* C8, as claimed: the body of the returned response is monitored, so a
\* frame the caller took from it has set the call's AtomicBool.
C8_ResponseFramesSignal ==
    \A c \in Calls : respFrames[c] > 0 => Signalled(futSig[c])

\* C8, amended: the monitored body wraps the body of the request; every
\* frame of it the channel was handed has set the call's AtomicBool, and
\* the AtomicBool is set by nothing else, the frames of the response among
\* them.
C8_RequestFramesSignal ==
    \A c \in Calls :
        Issued(c) =>
            /\ HasFrame(outTrace[c]) => Signalled(futSig[c])
            /\ Signalled(futSig[c]) => HasFrame(innerTrace[c])

C8_Witness ==
    \E c \in Calls : \E d \in Calls :
        /\ respFrames[c] > 0 /\ HasFrame(outTrace[c]) /\ Signalled(futSig[c])
        /\ respFrames[d] > 0 /\ ~Signalled(futSig[d])

\* C9: call() dispatches on the handle that was resident, leaves in the slot
\* a handle that did not exist before, and no two calls get the same handle.
C9_OneHandlePerCall ==
    [][nCalls' = nCalls + 1 =>
          /\ callHandle'[nCalls'] = slot
          /\ slot' \notin 1..handles
          /\ \A d \in 1..nCalls' : callHandle'[d] # slot'
          /\ \A d \in 1..nCalls : callHandle'[d] # callHandle'[nCalls']]_vars

C9_Witness ==
    /\ nCalls = 2
    /\ InFlight(1) /\ InFlight(2)
    /\ callHandle[1] = 1 /\ callHandle[2] = 2 /\ slot = 3

\* C10: two calls never hold the same AtomicBool; the AtomicBool of a call
\* is true only if its own body produced a frame, and its error lacks the
\* marker only if its own body produced a frame.
C10_SignalsIndependent ==
    \A c \in Calls :
        Issued(c) =>
            /\ \A d \in Calls :
                   (Issued(d) /\ d # c) =>
                       /\ futSig[c] # futSig[d]
                       /\ bodySig[c] # bodySig[d]
                       /\ futSig[c] # bodySig[d]
            /\ Signalled(futSig[c]) => HasFrame(innerTrace[c])
            /\ (fut[c].state = "err" /\ ~fut[c].marker) => HasFrame(innerTrace[c])

C10_Witness ==
    \E c \in Calls : \E d \in Calls :
        /\ HasFrame(outTrace[c]) /\ Signalled(futSig[c])
        /\ fut[c] = [state |-> "err", marker |-> FALSE]
        /\ fut[d] = [state |-> "err", marker |-> TRUE]
        /\ outTrace[d] = <<>> /\ ~Signalled(futSig[d])

Resolved(c) == fut[c].state \in {"ok", "err"}

\* C11: the future resolves Ok exactly when the inner future did, and then
\* with no marker whatever the AtomicBool holds; it resolves Err exactly
\* when the inner future did, and the marker is all it may add.
C11_FutureKeepsOutcome ==
    \A c \in Calls :
        /\ fut[c].state = "ok" <=> futInner[c] = "ok"
        /\ fut[c].state = "err" <=> futInner[c] = "err"
        /\ fut[c].state = "ok" => ~fut[c].marker
        /\ fut[c].marker => fut[c].state = "err"

C11_Witness ==
    \E c \in Calls : \E d \in Calls :
        /\ fut[c] = [state |-> "ok", marker |-> FALSE]
        /\ futInner[c] = "ok" /\ ~Signalled(futSig[c])
        /\ fut[d] = [state |-> "ok", marker |-> FALSE]
        /\ futInner[d] = "ok" /\ Signalled(futSig[d])

\* A step of poll_ready: it is the only operation that writes lastReady, and
\* the only one that changes ready without a call.
PollReadyStep == lastReady' # lastReady \/ (ready' # ready /\ nCalls' = nCalls)

\* C12: poll_ready returns the kind of result the channel's poll_ready
\* returned, with no marker, and leaves the slot, the handles, every
\* AtomicBool and every future as they were.
C12_PollReadyForwards ==
    [][PollReadyStep =>
          /\ lastReady'.outer = lastReady'.inner
          /\ ~lastReady'.marker
          /\ UNCHANGED <<slot, handles, http_frame_produced, futSig, bodySig,
                         fut>>]_vars

C12_Witness ==
    /\ lastReady = [inner |-> "err", outer |-> "err", marker |-> FALSE]
    /\ nCalls = 1 /\ slot = 2
    /\ Signalled(futSig[1])

\* C13: a poll of the future returned Pending exactly when the inner future
\* did, and a result the inner future had ready was returned by that poll;
\* a poll of the monitored body returned Pending exactly when the inner body
\* did, and no result of the inner body waits for a later poll: the one in
\* hand in the middle of a poll is that poll's.
C13_NoAddedSuspension ==
    \A c \in Calls :
        /\ fut[c].state = "pending" <=> futInner[c] = "pending"
        /\ futInner[c] \in {"ok", "err"} => Resolved(c)
        /\ Len(innerTrace[c]) =
               Len(outTrace[c]) + (IF body[c].pc = "matched" THEN 1 ELSE 0)
        /\ \A i \in 1..Len(outTrace[c]) :
               outTrace[c][i].kind = "pending" <=> innerTrace[c][i].kind = "pending"

C13_Witness ==
    \E c \in Calls :
        /\ fut[c].state = "pending" /\ futInner[c] = "pending"
        /\ body[c].pc = "matched"
        /\ outTrace[c] = <<Pending>>
        /\ innerTrace[c] = <<Pending, FrameOk(1)>>

\* This step polled the inner body of call c and got a frame.
FramePolled(c) ==
    /\ Len(innerTrace'[c]) = Len(innerTrace[c]) + 1
    /\ IsFrame(innerTrace'[c][Len(innerTrace'[c])])

\* C14: an AtomicBool changes only in a poll_frame that got a frame from
\* the inner body of its call, and a new one appears only in call(): polls
\* that return Pending or None, is_end_stream, size_hint, poll_ready and
\* polls of the future leave every AtomicBool as it was.
C14_OnlyFramesSignal ==
    [][/\ \A s \in 1..Len(http_frame_produced) :
             http_frame_produced'[s] # http_frame_produced[s] =>
                 \E c \in Calls : bodySig[c] = s /\ FramePolled(c)
       /\ Len(http_frame_produced') # Len(http_frame_produced) =>
             nCalls' = nCalls + 1]_vars

C14_Witness ==
    \E c \in Calls :
        /\ outTrace[c] = <<Pending, EndOfStream>>
        /\ fut[c].state = "pending"
        /\ lastReady.outer = "pending"
        /\ ~Signalled(bodySig[c])

Dropped(c) == body[c].pc = "dropped"

\* C15: the drop of a monitored body before its stream ended changes no
\* AtomicBool; once dropped, the AtomicBool is what the polls left, true
\* exactly when a frame was returned, and that is what a later poll of the
\* future reads for the marker.
C15_DropKeepsSignal ==
    [][\A c \in Calls :
          /\ (~Dropped(c) /\ Dropped(c)') =>
                 http_frame_produced' = http_frame_produced
          /\ Dropped(c)' =>
                 (http_frame_produced'[futSig'[c]] <=> HasFrame(outTrace'[c]))
          /\ (Dropped(c) /\ ResolvesErr(c)) =>
                 (fut'[c].marker <=> ~HasFrame(outTrace[c]))]_vars

C15_Witness ==
    \E c \in Calls : \E d \in Calls :
        /\ Dropped(c) /\ HasFrame(outTrace[c])
        /\ fut[c] = [state |-> "err", marker |-> FALSE]
        /\ Dropped(d) /\ ~HasFrame(outTrace[d])
        /\ fut[d] = [state |-> "err", marker |-> TRUE]

\* C16: a step of call() adds one AtomicBool, false, and one monitored body;
\* the future and the body of the call both hold that AtomicBool, which no
\* earlier call holds; and at every step the calls that have a body are the
\* calls that hold an AtomicBool.
C16_OneBodyOneSignal ==
    [][/\ nCalls' = nCalls + 1 =>
             LET c == nCalls'
             IN /\ Len(http_frame_produced') = Len(http_frame_produced) + 1
                /\ futSig'[c] = Len(http_frame_produced')
                /\ bodySig'[c] = futSig'[c]
                /\ ~http_frame_produced'[futSig'[c]]
                /\ body[c].pc = "none" /\ body'[c].pc = "idle"
                /\ \A d \in Calls \ {c} :
                       /\ body'[d] = body[d]
                       /\ futSig'[d] = futSig[d] /\ futSig'[d] # futSig'[c]
                       /\ bodySig'[d] = bodySig[d] /\ bodySig'[d] # bodySig'[c]
       /\ \A c \in Calls :
             /\ body'[c].pc # "none" <=> bodySig'[c] \in 1..Len(http_frame_produced')
             /\ bodySig'[c] = futSig'[c]]_vars

C16_Witness ==
    /\ nCalls = 2
    /\ futSig = <<1, 2>> /\ bodySig = <<1, 2>>
    /\ http_frame_produced = <<TRUE, FALSE>>
    /\ InFlight(1) /\ InFlight(2)

\* The window of a poll_frame of call c: the store is done and the frame is
\* not yet returned.
InWindow(c) ==
    body[c].pc = "matched" /\ IsFrame(body[c].cur) /\ Signalled(bodySig[c])

\* C17: under every interleaving of the polls of a call's body with the
\* polls of its future, an error that gets the marker is one read when the
\* consumer held no frame of that body; an error that gets no marker while
\* the consumer holds no frame is one read inside the window of the first
\* frame's poll.
C17_MarkerUnderInterleaving ==
    [][\A c \in Calls :
          ResolvesErr(c) =>
              /\ fut'[c].marker => ~HasFrame(outTrace[c])
              /\ (~fut'[c].marker /\ ~HasFrame(outTrace[c])) => InWindow(c)]_vars

C17_Witness ==
    \E c \in Calls :
        /\ fut[c] = [state |-> "err", marker |-> FALSE]
        /\ ~HasFrame(outTrace[c])
        /\ InWindow(c)

\* C18: with a caller that calls only after poll_ready returned Ready(Ok), a
\* step of call() dispatches on a handle that was ready and is ready no
\* longer, and leaves in the slot another handle, the clone, which is not
\* ready: only a poll_ready on it can make it so.
C18_DispatchOnReadyHandle ==
    [][nCalls' = nCalls + 1 =>
          LET h == callHandle'[nCalls']
          IN /\ h \in ready
             /\ h \notin ready'
             /\ slot' # h
             /\ slot' \notin ready']_vars

C18_Witness ==
    /\ nCalls = 2
    /\ callHandle = <<1, 2>> /\ slot = 3
    /\ ready = {}
    /\ lastReady.outer = "ok"

\* A poll_frame that has stored returns: from the store to the return the
\* code is a straight line with no await and no lock, so the task that runs
\* it gets there whenever it is scheduled.
FairSpec == Spec /\ \A c \in Calls : WF_vars(YieldFrame(c))

LastOf(t) == t[Len(t)]
\* The monitored body of call c has reported the terminal event its inner
\* body reported.
TerminalReported(c) ==
    /\ Terminated(outTrace[c])
    /\ LastOf(outTrace[c]) = LastOf(innerTrace[c])

\* No poll_frame is between its store and its return.
NoPollUnderWay == \A c \in Calls : body[c].pc # "matched"

====
